---- MODULE Spec2Model ----
(***************************************************************************)
(* A state-machine model of simulation.py (Brian2STDPMNIST): the run       *)
(* orchestrator main(), the network construction and the periodic network  *)
(* operations of simulation(), the final save step, and the files they     *)
(* leave on disk for later invocations (fresh, resumed and test runs).      *)
(*                                                                         *)
(* Weights are exact rationals <<numerator, denominator>>, so floating     *)
(* point rounding is not modelled.  The spiking dynamics of the engine      *)
(* between two periodic callbacks are a nondeterministic choice of spikes   *)
(* and of STDP weight changes.                                              *)
(***************************************************************************)
EXTENDS Integers, Sequences, FiniteSets, TLC

\* ------------------------------------------------------------------ bounds
MaxRuns == 2
MaxExamples == 2
MaxInterval == 2
MaxStdpSteps == 1
MaxSize == 2
MaxData == 3
MaxEpochNum == 3
MaxEpochDen == 3

\* ------------------------------------------------------- exact arithmetic
Abs(x) == IF x < 0 THEN -x ELSE x

RECURSIVE Gcd(_, _)
Gcd(a, b) == IF b = 0 THEN a ELSE Gcd(b, a % b)

Rat(n, d) ==
    LET s == IF d < 0 THEN -1 ELSE 1
        g == Gcd(Abs(n), Abs(d))
    IN  <<(s * n) \div g, (s * d) \div g>>

RInt(n) == <<n, 1>>
RAdd(x, y) == Rat(x[1] * y[2] + y[1] * x[2], x[2] * y[2])
RMul(x, y) == Rat(x[1] * y[1], x[2] * y[2])
RDiv(x, y) == Rat(x[1] * y[2], x[2] * y[1])
RPos(x) == x[1] > 0
RLess(x, y) == x[1] * y[2] < y[1] * x[2]
\* int() of a rational truncates toward zero; ceil rounds up
IntPart(x) == IF x[1] >= 0 THEN x[1] \div x[2] ELSE -((-x[1]) \div x[2])
RCeil(x) == -((-x[1]) \div x[2])
RClip(x, lo, hi) == IF RLess(x, lo) THEN lo ELSE IF RLess(hi, x) THEN hi ELSE x

RECURSIVE RSumSeq(_)
RSumSeq(s) == IF s = <<>> THEN RInt(0) ELSE RAdd(Head(s), RSumSeq(Tail(s)))

RECURSIVE SumSeq(_)
SumSeq(s) == IF s = <<>> THEN 0 ELSE Head(s) + SumSeq(Tail(s))

\* -------------------------------------------------------------- os.path
\* A path is [abs, parts]; a component is a tuple of the strings a format
\* call concatenates, so "theta_{}.npy".format("A") is <<"theta_","A",".npy">>.
Cwd == << <<"work">> >>
RelPath(parts) == [abs |-> FALSE, parts |-> parts]
AbsPath(parts) == [abs |-> TRUE, parts |-> parts]
PathJoin(p, q) == IF q.abs THEN q ELSE [abs |-> p.abs, parts |-> p.parts \o q.parts]
AbsParts(p) == IF p.abs THEN p.parts ELSE Cwd \o p.parts
IsPrefix(s, t) == Len(s) <= Len(t) /\ SubSeq(t, 1, Len(s)) = s
Under(p, d) == IsPrefix(AbsParts(d), AbsParts(p)) /\ AbsParts(p) # AbsParts(d)
Ancestors(p) == { SubSeq(AbsParts(p), 1, k) : k \in 1..Len(AbsParts(p)) }

\* ------------------------------------------------------ run configuration
\* An optional value is a tuple: <<>> is None, <<v>> is the value v.
None == <<>>
Some(v) == <<v>>
TheValue(o) == o[1]
RunName == <<"r1">>
AllPops == {"A", "O", "X", "Y"}
AllConns == {"AeAi", "AiAe", "OeOi", "OiOe", "XeAe", "YeOe", "AeOe", "OeAe"}
ForwardConns == {"XeAe", "YeOe", "AeOe", "OeAe"}
PreOf(c) == CASE c \in {"AeAi", "AeOe"} -> "Ae" [] c = "AiAe" -> "Ai"
              [] c \in {"OeOi", "OeAe"} -> "Oe" [] c = "OiOe" -> "Oi"
              [] c = "XeAe" -> "Xe" [] c = "YeOe" -> "Ye"
PostOf(c) == CASE c \in {"AiAe", "XeAe", "OeAe"} -> "Ae" [] c = "AeAi" -> "Ai"
               [] c \in {"OiOe", "YeOe", "AeOe"} -> "Oe" [] c = "OeOi" -> "Oi"
Exc(name) == CASE name = "A" -> "Ae" [] name = "O" -> "Oe"
               [] name = "X" -> "Xe" [] name = "Y" -> "Ye"

\* simulation(): the mode defaults
random_weights(a) == IF a.test_mode THEN FALSE ELSE ~a.resume
use_premade_weights(a) == IF a.test_mode THEN TRUE ELSE a.use_premade_weights
\* a plasticity switch that ignores the mode
ee_STDP_on_always(a) == TRUE
ee_STDP_on(a) == ~a.test_mode
DefaultInterval == 1000
progress_interval(a) ==
    IF a.progress_interval = None THEN DefaultInterval
    ELSE TheValue(a.progress_interval)
\* an assignments window whose default does not depend on the mode
progress_assignments_window_train(a) ==
    IF a.progress_assignments_window # None
    THEN TheValue(a.progress_assignments_window)
    ELSE 1000
progress_assignments_window(a) ==
    IF a.progress_assignments_window # None
    THEN TheValue(a.progress_assignments_window)
    ELSE IF a.test_mode THEN 0 ELSE 1000
progress_accuracy_window(a) ==
    IF a.progress_accuracy_window # None
    THEN TheValue(a.progress_accuracy_window)
    ELSE IF a.test_mode THEN 1000000 ELSE 1000

\* simulation(), lines 212-213, 223-224 and 273-279: the epochs, the number
\* of examples to present and the length of the data kept, for len examples
num_epochs(a) ==
    IF a.num_epochs # None THEN TheValue(a.num_epochs)
    ELSE IF a.test_mode THEN RInt(1) ELSE RInt(3)
num_examples(a, len) == IntPart(RMul(RInt(len), num_epochs(a)))
\* a truncation of the data that rounds down
n_data_rounded_down(a, len) ==
    IF RLess(num_epochs(a), RInt(1)) THEN IntPart(RMul(RInt(len), num_epochs(a)))
    ELSE len
n_data(a, len) ==
    IF RLess(num_epochs(a), RInt(1)) THEN RCeil(RMul(RInt(len), num_epochs(a)))
    ELSE len

\* simulation(): sizes and the active sub-networks
n_neurons(a, d) ==
    [p \in {"Ae", "Ai", "Oe", "Oi", "Xe", "Ye"} |->
        CASE p \in {"Ae", "Ai"} -> a.size
          [] p \in {"Oe", "Oi", "Ye"} -> d.num_classes
          [] p = "Xe" -> d.n_input]
input_population_names(a) == IF a.supervised THEN <<"X", "Y">> ELSE <<"X">>
population_names(a) == IF a.supervised THEN <<"A", "O">> ELSE <<"A">>
connection_names(a) ==
    <<"XeAe">> \o (IF a.supervised THEN <<"YeOe", "AeOe">> ELSE <<>>)
               \o (IF a.feedback THEN <<"OeAe">> ELSE <<>>)
save_conns(a) ==
    <<"XeAe">> \o (IF a.supervised THEN <<"YeOe", "AeOe">> ELSE <<>>)
               \o (IF a.feedback THEN <<"OeAe">> ELSE <<>>)
stdp_conn_names(a) ==
    {"XeAe"} \cup (IF a.supervised THEN {"AeOe"} ELSE {})
             \cup (IF a.feedback THEN {"OeAe"} ELSE {})
total_weight(a, d, c) ==
    CASE c = "XeAe" -> IF a.total_input_weight = None
                       THEN Rat(n_neurons(a, d)["Xe"], 10)
                       ELSE TheValue(a.total_input_weight)
      [] c = "AeOe" -> Rat(n_neurons(a, d)["Ae"], 5)
      [] c = "OeAe" -> Rat(n_neurons(a, d)["Oe"], 5)
SeqToSet(s) == { s[k] : k \in 1..Len(s) }
RecordedPops(a) == population_names(a) \o input_population_names(a)
BuiltConns(a) ==
    UNION { IF p = "A" THEN {"AeAi", "AiAe"} ELSE {"OeOi", "OiOe"} :
            p \in SeqToSet(population_names(a)) }
    \cup SeqToSet(connection_names(a))

\* ------------------------------------------------------------- matrices
\* A matrix is a sequence of rows; conn.w is the flat, source-major vector.
RECURSIVE Flatten(_)
Flatten(m) == IF m = <<>> THEN <<>> ELSE Head(m) \o Flatten(Tail(m))
Reshape(w, nr, nc) == [i \in 1..nr |-> [j \in 1..nc |-> w[(i - 1) * nc + j]]]
Eye(i, j) == IF i = j THEN 1 ELSE 0

\* get_initial_weights(n): the seeded uniform draws of XeAe are fixed values
\* of the interval (0.003, 0.303).
get_initial_weights(n, c) ==
    LET nr == n[PreOf(c)]
        nc == n[PostOf(c)]
    IN  [i \in 1..nr |-> [j \in 1..nc |->
            CASE c \in {"AeAi", "OeOi", "YeOe"} -> Rat(104 * Eye(i, j), 10)
              [] c \in {"AiAe", "OiOe"} -> RInt(17 * (1 - Eye(i, j)))
              [] c = "XeAe" -> Rat(1 + ((i + j) % 3), 10)
              [] c \in {"AeOe", "OeAe"} -> Rat(1, 10)]]

\* ------------------------------------------------------------ the paths
Name(s) == << <<s>> >>
outputpath(a) == PathJoin(a.output, RelPath(<<a.runname>>))
suffix(a) == IF a.test_mode THEN "_test" ELSE ""
logfilename(a) == PathJoin(outputpath(a), RelPath(<< <<"output", suffix(a), ".log">> >>))
storefilename(a) == PathJoin(outputpath(a), RelPath(<< <<"store", suffix(a), ".h5">> >>))
originalstorefilename(a) == PathJoin(outputpath(a), RelPath(<< <<"store", "", ".h5">> >>))
runpath(a) == PathJoin(RelPath(Name("runs")), RelPath(<<a.runname>>))
weight_path(a) == PathJoin(runpath(a), RelPath(Name("weights")))
output_path(a) ==
    PathJoin(runpath(a), RelPath(Name(IF a.test_mode THEN "output_test" ELSE "output")))
theta_filename(a, pop) == PathJoin(weight_path(a), RelPath(<< <<"theta_", pop, ".npy">> >>))
conn_filename(a, c) == PathJoin(weight_path(a), RelPath(<< <<c, ".npy">> >>))
plot_filename(a, kind, what) ==
    PathJoin(output_path(a), RelPath(<< <<kind, what, ".pdf">> >>))

\* main(): the decisions of the run orchestrator
TimestampName == <<"ts">>
\* a main() that never insists on a run name
needs_runname_never(a) == FALSE
needs_runname(a) == a.runname = None /\ a.resume
\* a directory check that does not count test mode as a reason to reuse
exist_ok_without_test(a) == a.clobber \/ a.resume
exist_ok(a) == a.clobber \/ a.resume \/ a.test_mode
makedirs_fails(ds, p, ok) == AbsParts(p) \in ds /\ ~ok
log_mode(a) == IF a.test_mode THEN "w" ELSE IF a.resume THEN "a" ELSE "w"
store_mode(a) == IF a.test_mode THEN "a" ELSE log_mode(a)

\* ------------------------------------------------------------ the store
\* One HDF store: the metadata attributes and the appended tables.  A
\* metadata attribute that was never set is -1.
Unset == -1
EmptyStore ==
    [exists |-> TRUE, nseen |-> Unset, nprogress |-> Unset,
     csc |-> [p \in AllPops |-> <<>>], nseenTab |-> <<>>,
     rates |-> [p \in AllPops |-> <<>>], assignments |-> [p \in AllPops |-> <<>>],
     accuracy |-> [p \in AllPops |-> <<>>], theta |-> [p \in AllPops |-> <<>>],
     connections |-> [c \in AllConns |-> <<>>]]
NoStore == [EmptyStore EXCEPT !.exists = FALSE]
StoreKey(a) == IF a.test_mode THEN "test" ELSE "train"

\* pd.HDFStore(storefilename, mode): "w" truncates, "a" keeps or creates
open_store(st, mode) == IF mode = "w" \/ ~st.exists THEN EmptyStore ELSE st

\* create_test_store: a fresh store holding the training store's metadata
\* and its theta, connections and assignments tables
create_test_store(orig) ==
    [EmptyStore EXCEPT !.nseen = orig.nseen, !.nprogress = orig.nprogress,
                       !.assignments = orig.assignments, !.theta = orig.theta,
                       !.connections = orig.connections]

ZeroVec(n) == [i \in 1..n |-> 0]
VecAdd(u, v) == [i \in 1..Len(u) |-> u[i] + v[i]]
VecSub(u, v) == [i \in 1..Len(u) |-> u[i] - v[i]]

\* the latest appended row of a cumulative table with index tbin, if any
RowsAt(tab, tbin) == { k \in 1..Len(tab) : tab[k].tbin = tbin }
LatestAt(tab, tbin) ==
    LET ks == RowsAt(tab, tbin)
    IN  tab[CHOOSE k \in ks : \A m \in ks : m <= k]

\* get_windows: both windows clipped to the history recorded so far
Min(x, y) == IF x < y THEN x ELSE y
accuracy_window(nseen, pacw) == Min(pacw, nseen)
assignments_window(nseen, paw, pacw) ==
    IF paw = 0 THEN nseen - accuracy_window(nseen, pacw)
    ELSE Min(paw, nseen - accuracy_window(nseen, pacw))

\* spike_counts_from_cumulative: the per-neuron counts of the examples
\* (lo, hi], by differencing the cumulative rows at the two boundaries
spike_counts_from_cumulative(tab, n, lo, hi) ==
    IF lo >= hi \/ RowsAt(tab, lo) = {} \/ RowsAt(tab, hi) = {} THEN ZeroVec(n)
    ELSE VecSub(LatestAt(tab, hi).count, LatestAt(tab, lo).count)

\* get_assignments over a one-class dataset: a neuron that spiked in the
\* window is assigned the class 0, a silent one stays unassigned (-1)
get_assignments(spikecounts) ==
    [i \in 1..Len(spikecounts) |-> IF spikecounts[i] > 0 THEN 0 ELSE -1]

\* ------------------------------------------------------------ the state
VARIABLES
    output,       \* the --output option of every invocation of the behaviour
    data,         \* the dataset: [n_input, num_classes]
    randomFiles,  \* the premade matrices of the random/ directory
    dirs,         \* the directories that exist (absolute paths)
    files,        \* the files that exist (absolute paths)
    logs,         \* the log files: the runs that wrote to each
    stores,       \* store.h5 ("train") and store_test.h5 ("test")
    wfiles,       \* the weights directory: theta_<pop>.npy and <conn>.npy
    pc,           \* the position of the running process
    args,         \* its keyword arguments
    exitStatus,   \* how the last process ended
    failure,      \* the exception that ended it, if any
    runs,         \* the number of processes started so far
    tick,         \* the simulated time point, in units of total_example_time
    due,          \* the network operations still to run at this time point
    counts,       \* the spike monitors' cumulative counts
    theta,        \* the excitatory groups' adaptive thresholds
    conns,        \* the connections' flat weight vectors
    written,      \* the files written by the running process
    execLog,      \* the network operations run at this time point, in order
    hist,         \* what the claims need of the past
    simargs,      \* the settings and the data length of one call of simulation()
    simlocals     \* its local variables after line 279, None before

env == <<output, data, randomFiles, simargs, simlocals>>
disk == <<dirs, files, logs, stores, wfiles>>
proc == <<pc, args, exitStatus, failure, runs>>
net == <<tick, due, counts, theta, conns>>
aux == <<written, execLog, hist>>
vars == <<env, disk, proc, net, aux>>

Outputs == {RelPath(Name("runs")), AbsPath(Name("home") \o Name("runs"))}
PremadeMatrix(n, c) == [i \in 1..n[PreOf(c)] |-> [j \in 1..n[PostOf(c)] |-> Rat(1, 4)]]
NoFiles == [c \in AllConns |-> <<>>]
NoArgs ==
    [test_mode |-> FALSE, resume |-> FALSE, clobber |-> FALSE, runname |-> RunName,
     use_premade_weights |-> FALSE, num_examples |-> 1, progress_interval |-> None,
     progress_assignments_window |-> None, progress_accuracy_window |-> None,
     supervised |-> FALSE, feedback |-> FALSE, total_input_weight |-> None,
     size |-> 1, output |-> RelPath(Name("runs"))]
NoHist ==
    [nseen0 |-> 0, nprogress0 |-> 0, rows |-> <<>>, passes |-> 0,
     used |-> [p \in AllPops |-> None], cloned |-> EmptyStore.assignments,
     checkpoint |-> None, prevKilled |-> FALSE, prevCheckpoint |-> None]

\* the command lines of the lifecycle: one run name, the default windows,
\* the unsupervised network of one input and one excitatory neuron
ArgSpace ==
    { a \in [test_mode : BOOLEAN, resume : BOOLEAN, clobber : BOOLEAN,
             runname : {RunName, None}, use_premade_weights : BOOLEAN,
             num_examples : 1..MaxExamples,
             progress_interval : { Some(k) : k \in 0..MaxInterval },
             progress_assignments_window : {None},
             progress_accuracy_window : {None},
             supervised : {FALSE}, feedback : {FALSE},
             total_input_weight : {None}, size : {1}, output : {output}] :
        (a.runname = None => a.resume) }

\* the settings of a call of simulation() with nothing given
NoSimArgs ==
    [test_mode |-> FALSE, resume |-> FALSE, use_premade_weights |-> FALSE,
     num_epochs |-> None, progress_interval |-> None,
     progress_assignments_window |-> None, progress_accuracy_window |-> None,
     len |-> 1]
NoCall == simargs = NoSimArgs /\ simlocals = None

\* nothing on disk yet, no process running
Blank ==
    /\ dirs = {} /\ files = {}
    /\ logs = [k \in {"train", "test"} |-> <<>>]
    /\ stores = [k \in {"train", "test"} |-> NoStore]
    /\ wfiles = [theta |-> [p \in AllPops |-> <<>>], conn |-> NoFiles]
    /\ pc = "idle" /\ args = NoArgs /\ exitStatus = 0 /\ failure = "" /\ runs = 0
    /\ tick = 0 /\ due = {} /\ counts = [p \in AllPops |-> <<>>]
    /\ theta = [p \in AllPops |-> <<>>] /\ conns = NoFiles
    /\ written = {} /\ execLog = <<>> /\ hist = NoHist

Init ==
    /\ output \in Outputs
    /\ data = [n_input |-> 1, num_classes |-> 1]
    /\ randomFiles = [NoFiles EXCEPT !["XeAe"] =
                          PremadeMatrix(n_neurons(NoArgs, data), "XeAe")]
    /\ Blank
    /\ NoCall

\* the process ends: by exit(code), by an uncaught exception, or normally
Ends(code, why) ==
    /\ pc' = "exited" /\ exitStatus' = code /\ failure' = why

\* main(), lines 138-152: the run name and the output directory
Main(a) ==
    /\ pc = "idle" /\ runs < MaxRuns
    /\ runs' = runs + 1
    /\ written' = {} /\ execLog' = <<>>
    /\ hist' = [NoHist EXCEPT !.prevKilled = hist.prevKilled,
                              !.prevCheckpoint = hist.prevCheckpoint]
    /\ IF needs_runname(a)
       THEN /\ Ends(2, "")
            /\ args' = a
            /\ UNCHANGED <<dirs>>
       ELSE LET b == [a EXCEPT !.runname =
                         IF a.runname = None THEN TimestampName ELSE a.runname]
            IN  /\ args' = b
                /\ IF makedirs_fails(dirs, outputpath(b), exist_ok(b))
                   THEN Ends(8, "") /\ UNCHANGED dirs
                   ELSE /\ dirs' = dirs \cup Ancestors(outputpath(b))
                        /\ pc' = "main_log"
                        /\ UNCHANGED <<exitStatus, failure>>
    /\ UNCHANGED <<env, files, logs, stores, wfiles, net>>

\* the process is gone: its memory is released, the files stay
Exit ==
    /\ pc = "exited"
    /\ pc' = "idle"
    /\ args' = NoArgs /\ failure' = ""
    /\ tick' = 0 /\ due' = {} /\ counts' = [p \in AllPops |-> <<>>]
    /\ theta' = [p \in AllPops |-> <<>>] /\ conns' = NoFiles
    /\ written' = {} /\ execLog' = <<>>
    /\ hist' = [NoHist EXCEPT
                   !.prevKilled = (exitStatus = -9 /\ ~args.test_mode),
                   !.prevCheckpoint = IF exitStatus = -9 /\ ~args.test_mode
                                      THEN hist.checkpoint ELSE None]
    /\ UNCHANGED <<env, disk, exitStatus, runs>>

\* main(), lines 153-166: the log file
OpenLog ==
    /\ pc = "main_log"
    /\ logs' = [logs EXCEPT ![StoreKey(args)] =
                   IF log_mode(args) = "a" THEN Append(@, runs) ELSE <<runs>>]
    /\ files' = files \cup {AbsParts(logfilename(args))}
    /\ written' = written \cup {AbsParts(logfilename(args))}
    /\ args' = [args EXCEPT !.clobber = FALSE]  \* read for the last time at line 147
    /\ pc' = "main_store"
    /\ UNCHANGED <<env, dirs, stores, wfiles, exitStatus, failure, runs, net,
                   execLog, hist>>

\* main(), lines 167-174: the store; a test run first clones store.h5
OpenStore ==
    /\ pc = "main_store"
    /\ IF args.test_mode /\ ~stores["train"].exists
       THEN /\ Ends(1, "OSError")
            /\ UNCHANGED <<stores, files, written, hist>>
       ELSE /\ stores' = [stores EXCEPT ![StoreKey(args)] =
                   IF args.test_mode
                   THEN open_store(create_test_store(stores["train"]), store_mode(args))
                   ELSE open_store(@, store_mode(args))]
            /\ files' = files \cup {AbsParts(storefilename(args))}
            /\ written' = written \cup {AbsParts(storefilename(args))}
            /\ hist' = [hist EXCEPT !.cloned = stores'[StoreKey(args)].assignments]
            /\ pc' = "sim_setup"
            /\ UNCHANGED <<exitStatus, failure>>
    /\ UNCHANGED <<env, dirs, logs, wfiles, args, runs, net, execLog>>

\* simulation(), lines 203-261: the metadata, the paths, the directories
SimSetup ==
    /\ pc = "sim_setup"
    /\ stores' = [stores EXCEPT ![StoreKey(args)] =
                     IF ~args.resume THEN [@ EXCEPT !.nseen = 0, !.nprogress = 0] ELSE @]
    /\ dirs' = dirs \cup Ancestors(weight_path(args)) \cup Ancestors(output_path(args))
    /\ hist' = [hist EXCEPT !.nseen0 = stores'[StoreKey(args)].nseen,
                            !.nprogress0 = stores'[StoreKey(args)].nprogress]
    /\ args' = [args EXCEPT !.use_premade_weights = use_premade_weights(args)]
    /\ pc' = "sim_build"
    /\ UNCHANGED <<env, files, logs, wfiles, exitStatus, failure, runs, net,
                   written, execLog>>

\* the initial theta of a new excitatory group, in mV
ThetaDefault == 20
theta_init(a, name) == IF a.supervised /\ name = "O" THEN 15 ELSE ThetaDefault
const_theta(a, name) == a.test_mode /\ name # "O"

\* a load of theta that does not compare its length with the population
load_theta_unchecked(a, d, wf, name) ==
    IF random_weights(a) THEN ""
    ELSE IF wf.theta[name] = <<>> THEN "FileNotFoundError"
    ELSE ""

\* load_theta fails when the file is missing; the length check of lines 397-402
load_theta_error(a, d, wf, name) ==
    IF random_weights(a) THEN ""
    ELSE IF wf.theta[name] = <<>> THEN "FileNotFoundError"
    ELSE IF Len(wf.theta[name]) # n_neurons(a, d)[Exc(name)] THEN "ValueError"
    ELSE ""

\* lines 395-405 and 453-455: the thresholds of the built groups
built_theta(a, d, wf) ==
    [name \in AllPops |->
        IF name \notin SeqToSet(population_names(a)) THEN <<>>
        ELSE IF a.test_mode /\ a.supervised /\ name = "O"
             THEN [i \in 1..n_neurons(a, d)[Exc(name)] |-> 5]
        ELSE IF ~random_weights(a) THEN wf.theta[name]
        ELSE [i \in 1..n_neurons(a, d)[Exc(name)] |-> theta_init(a, name)]]

\* a load that looks in the other of the two directories
load_connections_swapped(c, random, rf, wf) == IF random THEN wf.conn[c] ELSE rf[c]

\* load_connections: the premade matrix of the random/ directory or the
\* saved matrix of the weights directory; <<>> when the file is not found
load_connections(c, random, rf, wf) == IF random THEN rf[c] ELSE wf.conn[c]

\* lines 427-439 and 532-544: the weight vector given to a connection
built_weights(a, d, rf, wf, c) ==
    LET loaded == IF use_premade_weights(a)
                  THEN load_connections(c, random_weights(a), rf, wf) ELSE <<>>
        weightMatrix == IF loaded = <<>> THEN get_initial_weights(n_neurons(a, d), c)
                        ELSE loaded
    IN  Flatten(weightMatrix)
stdp_on(a, c) == ee_STDP_on(a) /\ c \in stdp_conn_names(a)

\* the periodic network operations registered with the engine, their
\* periods in examples and their order at a shared time point
Registered(a) ==
    {"record"} \cup (IF ee_STDP_on(a) THEN {"normalize"} ELSE {})
               \cup (IF progress_interval(a) > 0 THEN {"progress"} ELSE {})
PeriodOf(a, op) == IF op = "progress" THEN progress_interval(a) ELSE 1
\* a schedule in which the recording is not ordered before the others
OrderOf_recordLast(op) ==
    CASE op = "record" -> 2 [] op = "normalize" -> 1 [] op = "progress" -> 2
OrderOf(op) == CASE op = "record" -> 0 [] op = "normalize" -> 1 [] op = "progress" -> 2
DueAt(a, k) == { op \in Registered(a) : k % PeriodOf(a, op) = 0 }
RunsNext(op) == op \in due /\ \A o \in due : OrderOf(op) <= OrderOf(o)

\* simulation(), lines 273-776: the network and its operations
SimBuild ==
    /\ pc = "sim_build"
    /\ LET errA == load_theta_error(args, data, wfiles, "A")
           errO == IF args.supervised THEN load_theta_error(args, data, wfiles, "O")
                   ELSE ""
       IN  IF errA # "" \/ errO # ""
           THEN /\ Ends(1, IF errA # "" THEN errA ELSE errO)
                /\ UNCHANGED <<net, execLog>>
           ELSE /\ theta' = built_theta(args, data, wfiles)
                /\ conns' = [c \in AllConns |->
                                IF c \in BuiltConns(args)
                                THEN built_weights(args, data, randomFiles, wfiles, c)
                                ELSE <<>>]
                /\ counts' = [p \in AllPops |->
                                 IF p \in SeqToSet(RecordedPops(args))
                                 THEN ZeroVec(n_neurons(args, data)[Exc(p)]) ELSE <<>>]
                /\ tick' = 0
                /\ due' = DueAt(args, 0)
                /\ execLog' = <<>>
                /\ pc' = "run"
                /\ UNCHANGED <<exitStatus, failure>>
    /\ UNCHANGED <<env, disk, args, runs, written, hist>>

\* a recording that counts an example at simulated time 0 as well
record_counting_time_zero(st, a, cnt, incr) ==
    [st EXCEPT !.nseen = st.nseen + 1,
               !.csc = [p \in AllPops |->
                           IF p \in SeqToSet(RecordedPops(a))
                           THEN Append(@[p], [tbin |-> st.nseen + 1, count |-> cnt[p]])
                           ELSE @[p]]]

\* record_cumulative_spike_counts(t), lines 576-586; incr is "t is None or t > 0"
record_cumulative_spike_counts(st, a, cnt, incr) ==
    LET nseen == IF incr THEN st.nseen + 1 ELSE st.nseen
    IN  [st EXCEPT !.nseen = nseen,
                   !.csc = [p \in AllPops |->
                               IF p \in SeqToSet(RecordedPops(a))
                               THEN Append(@[p], [tbin |-> nseen, count |-> cnt[p]])
                               ELSE @[p]]]

\* normalize_weights, lines 557-572, for one connection
ColSum(m, j) == RSumSeq([i \in 1..Len(m) |-> m[i][j]])
\* a factor that scales a column to the sum 1 instead of the total
ColFactor_unit(m, j, total) ==
    IF RPos(ColSum(m, j)) THEN RDiv(RInt(1), ColSum(m, j)) ELSE RInt(1)
ColFactor(m, j, total) ==
    IF RPos(ColSum(m, j)) THEN RDiv(total, ColSum(m, j)) ELSE RInt(1)
normalize_conn(w, nr, nc, total) ==
    LET connweights == Reshape(w, nr, nc)
        scaled == [i \in 1..nr |-> [j \in 1..nc |->
                      RMul(connweights[i][j], ColFactor(connweights, j, total))]]
    IN  Flatten(scaled)
normalize_weights(cn, a, d) ==
    [c \in AllConns |->
        IF c \in BuiltConns(a) /\ c \in stdp_conn_names(a)
        THEN normalize_conn(cn[c], n_neurons(a, d)[PreOf(c)], n_neurons(a, d)[PostOf(c)],
                            total_weight(a, d, c))
        ELSE cn[c]]

\* a progress pass that computes the assignments in every mode
computes_assignments_always(a) == TRUE

\* line 632: assignments are computed in train mode, read in test mode
computes_assignments(a) == ~a.test_mode

\* progress(), lines 606-700, for one population
ProgressPop(acc, name, a, d, th) ==
    IF acc.failed THEN acc
    ELSE
    LET st == acc.st
        n == n_neurons(a, d)[Exc(name)]
        accw == accuracy_window(st.nseen, progress_accuracy_window(a))
        assw == assignments_window(st.nseen, progress_assignments_window(a),
                                   progress_accuracy_window(a))
        csc == st.csc[name]
        present == spike_counts_from_cumulative(csc, n, st.nseen - accw, st.nseen)
        n_spikes_present == SumSeq(present)
        st1 == IF n_spikes_present > 0
               THEN [st EXCEPT !.rates[name] = Append(@, st.nseen)] ELSE st
        plots1 == acc.plots \cup
                  (IF n_spikes_present > 0
                   THEN {plot_filename(a, "spikerates-summary-", Exc(name))} ELSE {})
    IN  IF name \notin SeqToSet(population_names(a))
        THEN [acc EXCEPT !.st = st1, !.plots = plots1]
        ELSE IF ~computes_assignments(a) /\ st1.assignments[name] = <<>>
        THEN [acc EXCEPT !.st = st1, !.plots = plots1, !.failed = TRUE]
        ELSE
        LET past == spike_counts_from_cumulative(csc, n, st.nseen - accw - assw,
                                                 st.nseen - accw)
            computed == [nseen |-> st.nseen,
                         label |-> IF name = "O" THEN [i \in 1..n |-> i - 1]
                                   ELSE get_assignments(past)]
            st2 == IF computes_assignments(a)
                   THEN [st1 EXCEPT !.assignments[name] = Append(@, computed)] ELSE st1
            assignments == IF computes_assignments(a) THEN <<computed>>
                           ELSE st1.assignments[name]
            st3 == IF n_spikes_present = 0 THEN st2
                   ELSE [st2 EXCEPT !.accuracy[name] = Append(@, st.nseen)]
            st4 == [st3 EXCEPT !.theta[name] =
                                  Append(@, st.nseen)]
        IN  [st |-> st4, failed |-> FALSE,
             plots |-> plots1
                 \cup (IF n_spikes_present = 0 THEN {}
                       ELSE {plot_filename(a, "accuracy-", Exc(name)),
                             plot_filename(a, "spikerates-", Exc(name))})
                 \cup {plot_filename(a, "theta-", Exc(name)),
                       plot_filename(a, "theta-summary-", Exc(name))},
             used |-> IF n_spikes_present = 0 THEN acc.used
                      ELSE [acc.used EXCEPT ![name] = Some(assignments)]]

RECURSIVE ProgressPops(_, _, _, _, _)
ProgressPops(acc, names, a, d, th) ==
    IF names = <<>> THEN acc
    ELSE ProgressPops(ProgressPop(acc, Head(names), a, d, th), Tail(names), a, d, th)

\* a progress pass that snapshots the connections in train mode only
snapshots_connections_train_only(a, nseen) == ~a.test_mode

\* line 701: the connections are appended and their weights plotted
snapshots_connections(a, nseen) == ~a.test_mode \/ nseen = 0

\* progress(), lines 594-754: [st, failed, plots, used]
progress(st, a, d, th, cn, used) ==
    LET st0 == [st EXCEPT !.nseenTab = Append(@, <<st.nprogress, st.nseen>>),
                          !.nprogress = @ + 1]
        r == ProgressPops([st |-> st0, failed |-> FALSE, plots |-> {}, used |-> used],
                          RecordedPops(a), a, d, th)
    IN  IF r.failed \/ ~snapshots_connections(a, st.nseen) THEN r
        ELSE [r EXCEPT
                !.st.connections = [c \in AllConns |->
                    IF c \in SeqToSet(save_conns(a))
                    THEN Append(@[c], st.nseen) ELSE @[c]],
                !.plots = @ \cup { plot_filename(a, "weights-", c) :
                                     c \in SeqToSet(save_conns(a)) \ {"YeOe"} }]

\* ------------------------------------------------ the engine run, net.run
Paths(ps) == { AbsParts(q) : q \in ps }
StartsNextPoint(k) ==
    /\ tick' = k
    /\ execLog' = <<>>
    /\ IF k < args.num_examples
       THEN due' = DueAt(args, k) /\ pc' = "run"
       ELSE due' = {} /\ pc' = "final_progress"

\* record_cumulative_spike_counts_net_op(t), order 0
RecordNetOp ==
    /\ pc = "run" /\ RunsNext("record")
    /\ IF stores[StoreKey(args)].nseen = Unset
       THEN /\ Ends(1, "AttributeError")
            /\ UNCHANGED <<stores, due, execLog, hist>>
       ELSE /\ stores' = [stores EXCEPT ![StoreKey(args)] =
                   record_cumulative_spike_counts(@, args, counts, tick > 0)]
            /\ due' = due \ {"record"}
            /\ execLog' = Append(execLog, "record")
            /\ hist' = [hist EXCEPT !.rows = Append(@, stores'[StoreKey(args)].nseen)]
            /\ UNCHANGED <<pc, exitStatus, failure>>
    /\ UNCHANGED <<env, dirs, files, logs, wfiles, args, runs, tick, counts, theta, conns,
                   written>>

\* normalize_weights(t), order 1
NormalizeNetOp ==
    /\ pc = "run" /\ RunsNext("normalize")
    /\ conns' = normalize_weights(conns, args, data)
    /\ due' = due \ {"normalize"}
    /\ execLog' = Append(execLog, "normalize")
    /\ UNCHANGED <<env, disk, proc, tick, counts, theta, written, hist>>

\* one pass of progress(): the store, the plots, and how it ends
ProgressPass(next) ==
    LET r == progress(stores[StoreKey(args)], args, data, theta, conns, hist.used)
    IN  /\ stores' = [stores EXCEPT ![StoreKey(args)] = r.st]
        /\ files' = files \cup Paths(r.plots)
        /\ written' = written \cup Paths(r.plots)
        /\ IF r.failed
           THEN Ends(1, "KeyError") /\ UNCHANGED hist
           ELSE /\ pc' = next
                /\ hist' = [hist EXCEPT !.passes = @ + 1, !.used = r.used,
                                        !.checkpoint = Some([theta |-> theta,
                                                             conns |-> conns])]
                /\ UNCHANGED <<exitStatus, failure>>

\* progress_net_op(t), order 2
ProgressNetOp ==
    /\ pc = "run" /\ RunsNext("progress")
    /\ ProgressPass("run")
    /\ due' = due \ {"progress"}
    /\ execLog' = Append(execLog, "progress")
    /\ UNCHANGED <<env, dirs, logs, wfiles, args, runs, tick, counts, theta, conns>>

\* What the engine does between two time points: neurons spike, the
\* thresholds of the adapting groups rise, and synapses with STDP change
\* their weight within [0, WMax].
WMax == RInt(1)
StdpStep == Rat(1, 10)
SpikeSpace(a, d) ==
    [p \in AllPops |-> IF p \in SeqToSet(RecordedPops(a))
                       THEN [1..n_neurons(a, d)[Exc(p)] -> 0..1] ELSE {<<>>}]
SpikeChoices(a, d) ==
    { f \in [AllPops -> UNION { SpikeSpace(a, d)[p] : p \in AllPops }] :
        /\ \A p \in AllPops : f[p] \in SpikeSpace(a, d)[p]
        /\ SumSeq(f["A"]) > 0 => SumSeq(f["X"]) > 0 }
\* one weight update of a synapse with STDP: potentiation at a spike of its
\* target neuron, depression at a spike of its source neuron
PopOf(g) == CASE g = "Ae" -> "A" [] g = "Oe" -> "O" [] g = "Xe" -> "X" [] g = "Ye" -> "Y"
StdpSteps(cn, a, d, sp) ==
    UNION { LET nc == n_neurons(a, d)[PostOf(c)]
                src(k) == ((k - 1) \div nc) + 1
                tgt(k) == ((k - 1) % nc) + 1
            IN  { [cn EXCEPT ![c][k] = RClip(RAdd(@, StdpStep), RInt(0), WMax)] :
                    k \in { x \in 1..Len(cn[c]) : sp[PopOf(PostOf(c))][tgt(x)] > 0 } }
                \cup
                { [cn EXCEPT ![c][k] = RClip(RAdd(@, RMul(RInt(-1), StdpStep)),
                                             RInt(0), WMax)] :
                    k \in { x \in 1..Len(cn[c]) : sp[PopOf(PreOf(c))][src(x)] > 0 } } :
            c \in { x \in BuiltConns(a) : stdp_on(a, x) } }
RECURSIVE StdpReach(_, _, _, _, _)
StdpReach(cn, a, d, sp, steps) ==
    IF steps = 0 THEN {cn}
    ELSE {cn} \cup UNION { StdpReach(x, a, d, sp, steps - 1) : x \in StdpSteps(cn, a, d, sp) }

EngineAdvance ==
    /\ pc = "run" /\ due = {}
    /\ \E sp \in SpikeChoices(args, data) :
         /\ counts' = [p \in AllPops |->
                          IF counts[p] = <<>> THEN <<>> ELSE VecAdd(counts[p], sp[p])]
         /\ theta' = [p \in AllPops |->
                         IF theta[p] = <<>> \/ const_theta(args, p) THEN theta[p]
                         ELSE VecAdd(theta[p], sp[p])]
         /\ conns' \in StdpReach(conns, args, data, sp, MaxStdpSteps)
    /\ StartsNextPoint(tick + 1)
    /\ UNCHANGED <<env, disk, args, exitStatus, failure, runs, written, hist>>

\* ------------------------------------------- saving results, lines 793-798
FinalProgress ==
    /\ pc = "final_progress"
    /\ IF args.test_mode
       THEN LET r == progress(stores[StoreKey(args)], args, data, theta, conns, hist.used)
            IN  /\ stores' = [stores EXCEPT ![StoreKey(args)] = r.st]
                /\ files' = files \cup Paths(r.plots)
                /\ written' = written \cup Paths(r.plots)
                /\ Ends(IF r.failed THEN 1 ELSE 0, IF r.failed THEN "KeyError" ELSE "")
                /\ hist' = IF r.failed THEN hist
                           ELSE [hist EXCEPT !.passes = @ + 1, !.used = r.used]
       ELSE ProgressPass("final_record")
    /\ UNCHANGED <<env, dirs, logs, wfiles, args, runs, net, execLog>>

\* a save step that leaves out the final recording
FinalRecord_skipped ==
    /\ pc = "final_record"
    /\ pc' = "save_theta"
    /\ UNCHANGED <<env, disk, args, exitStatus, failure, runs, net, aux>>

FinalRecord ==
    /\ pc = "final_record"
    /\ stores' = [stores EXCEPT ![StoreKey(args)] =
                     record_cumulative_spike_counts(@, args, counts, TRUE)]
    /\ hist' = [hist EXCEPT !.rows = Append(@, stores'[StoreKey(args)].nseen)]
    /\ pc' = "save_theta"
    /\ UNCHANGED <<env, dirs, files, logs, wfiles, args, exitStatus, failure, runs, net,
                   written, execLog>>

\* save_theta, lines 97-103
SaveTheta ==
    /\ pc = "save_theta"
    /\ wfiles' = [wfiles EXCEPT !.theta = [p \in AllPops |->
                     IF p \in SeqToSet(population_names(args)) THEN theta[p] ELSE @[p]]]
    /\ files' = files \cup Paths({ theta_filename(args, p) :
                                     p \in SeqToSet(population_names(args)) })
    /\ written' = written \cup Paths({ theta_filename(args, p) :
                                         p \in SeqToSet(population_names(args)) })
    /\ pc' = "save_conns"
    /\ UNCHANGED <<env, dirs, logs, stores, args, exitStatus, failure, runs, net,
                   execLog, hist>>

\* save_connections, lines 81-88; the process then ends normally
SaveConnections ==
    /\ pc = "save_conns"
    /\ wfiles' = [wfiles EXCEPT !.conn = [c \in AllConns |->
                     IF c \in SeqToSet(save_conns(args))
                     THEN Reshape(conns[c], n_neurons(args, data)[PreOf(c)],
                                  n_neurons(args, data)[PostOf(c)])
                     ELSE @[c]]]
    /\ files' = files \cup Paths({ conn_filename(args, c) :
                                     c \in SeqToSet(save_conns(args)) })
    /\ written' = written \cup Paths({ conn_filename(args, c) :
                                         c \in SeqToSet(save_conns(args)) })
    /\ Ends(0, "")
    /\ UNCHANGED <<env, dirs, logs, stores, args, runs, net, execLog, hist>>

\* the process is killed from outside while the engine integrates
Kill ==
    /\ pc = "run" /\ due = {}
    /\ Ends(-9, "killed")
    /\ UNCHANGED <<env, disk, args, runs, net, aux>>

Next ==
    \/ \E a \in ArgSpace : Main(a)
    \/ Exit
    \/ OpenLog
    \/ OpenStore
    \/ SimSetup
    \/ SimBuild
    \/ RecordNetOp
    \/ NormalizeNetOp
    \/ ProgressNetOp
    \/ EngineAdvance
    \/ FinalProgress
    \/ FinalRecord
    \/ SaveTheta
    \/ SaveConnections
    \/ Kill

Spec == Init /\ [][Next]_vars

\* ------------------------------------------------------------------------
\* One fresh training run of a larger network without periodic progress
\* passes: up to MaxSize input and excitatory neurons, the supervised layer
\* on the network of one input and one excitatory neuron, and a total input
\* weight that is the default or the value given on the command line.  The
\* random/ directory holds a premade XeAe matrix for MaxSize excitatory
\* neurons whose first column is negative.
SignedMatrix(nr, nc) ==
    [i \in 1..nr |-> [j \in 1..nc |-> IF j = 1 THEN Rat(-1, 4) ELSE Rat(1, 4)]]
NormArgSpace ==
    { a \in
    [test_mode : {FALSE}, resume : {FALSE}, clobber : {FALSE}, runname : {RunName},
     use_premade_weights : BOOLEAN, num_examples : 1..MaxExamples,
     progress_interval : {Some(0)},
     progress_assignments_window : {None}, progress_accuracy_window : {None},
     supervised : BOOLEAN, feedback : {FALSE},
     total_input_weight : {None, Some(RInt(-1))}, size : 1..MaxSize, output : {output}] :
        /\ a.supervised => (a.size = 1 /\ data.n_input = 1)
        /\ a.use_premade_weights => (a.size = MaxSize /\ ~a.supervised) }

InitNorm ==
    /\ output = RelPath(Name("runs"))
    /\ data \in [n_input : 1..MaxSize, num_classes : {1}]
    /\ randomFiles = [NoFiles EXCEPT !["XeAe"] = SignedMatrix(data.n_input, MaxSize)]
    /\ Blank
    /\ NoCall

NextNorm ==
    \/ \E a \in NormArgSpace : runs = 0 /\ Main(a)
    \/ OpenLog
    \/ OpenStore
    \/ SimSetup
    \/ SimBuild
    \/ RecordNetOp
    \/ NormalizeNetOp
    \/ EngineAdvance
    \/ FinalProgress
    \/ FinalRecord
    \/ SaveTheta
    \/ SaveConnections

SpecNorm == InitNorm /\ [][NextNorm]_vars

\* ------------------------------------------------------------------------
\* The lifecycle of one run name whose processes ask for networks of different
\* sizes: a later test or resumed run may find a saved theta of another
\* length than its excitatory population.
SizesArgSpace ==
    [test_mode : BOOLEAN, resume : BOOLEAN, clobber : {FALSE}, runname : {RunName},
     use_premade_weights : {FALSE}, num_examples : {1},
     progress_interval : { Some(k) : k \in 0..1 },
     progress_assignments_window : {None}, progress_accuracy_window : {None},
     supervised : {FALSE}, feedback : {FALSE},
     total_input_weight : {None}, size : 1..MaxSize, output : {output}]

NextSizes ==
    \/ \E a \in SizesArgSpace : Main(a)
    \/ Exit
    \/ OpenLog
    \/ OpenStore
    \/ SimSetup
    \/ SimBuild
    \/ RecordNetOp
    \/ NormalizeNetOp
    \/ ProgressNetOp
    \/ EngineAdvance
    \/ FinalProgress
    \/ FinalRecord
    \/ SaveTheta
    \/ SaveConnections
    \/ Kill

SpecSizes == Init /\ [][NextSizes]_vars

\* ------------------------------------------------------------------------
\* Invocations with and without a run name on an output directory that holds
\* no run yet.
FirstArgSpace ==
    [test_mode : BOOLEAN, resume : BOOLEAN, clobber : BOOLEAN,
     runname : {RunName, None}, use_premade_weights : {FALSE},
     num_examples : {1}, progress_interval : { Some(k) : k \in 0..1 },
     progress_assignments_window : {None}, progress_accuracy_window : {None},
     supervised : {FALSE}, feedback : {FALSE},
     total_input_weight : {None}, size : {1}, output : {output}]

NextFirst ==
    \/ \E a \in FirstArgSpace : dirs = {} /\ Main(a)
    \/ Exit
    \/ OpenLog
    \/ OpenStore
    \/ SimSetup
    \/ SimBuild
    \/ RecordNetOp
    \/ NormalizeNetOp
    \/ ProgressNetOp
    \/ EngineAdvance
    \/ FinalProgress
    \/ FinalRecord
    \/ SaveTheta
    \/ SaveConnections
    \/ Kill

SpecFirst == Init /\ [][NextFirst]_vars

\* ------------------------------------------------------------------------
\* One call of simulation() up to line 279 and the examples the engine then
\* presents: the settings given (None when left out), the epochs as a
\* rational and the length of the dataset are drawn from small sets.
Epochs == { Rat(n, d) : n \in 1..MaxEpochNum, d \in 1..MaxEpochDen }
SimArgSpace ==
    [test_mode : BOOLEAN, resume : BOOLEAN, use_premade_weights : BOOLEAN,
     num_epochs : {None} \cup { Some(e) : e \in Epochs },
     progress_interval : {None, Some(0), Some(5)},
     progress_assignments_window : {None, Some(7)},
     progress_accuracy_window : {None, Some(9)},
     len : 1..MaxData]

InitDefaults ==
    /\ output = RelPath(Name("runs"))
    /\ data = [n_input |-> 1, num_classes |-> 1]
    /\ randomFiles = NoFiles
    /\ Blank
    /\ simargs \in SimArgSpace
    /\ simlocals = None

\* simulation(), lines 208-230 and 273-279
ResolveDefaults ==
    /\ simlocals = None
    /\ simlocals' = Some(
           [random_weights |-> random_weights(simargs),
            use_premade_weights |-> use_premade_weights(simargs),
            ee_STDP_on |-> ee_STDP_on(simargs),
            num_epochs |-> num_epochs(simargs),
            progress_interval |-> progress_interval(simargs),
            progress_assignments_window |-> progress_assignments_window(simargs),
            progress_accuracy_window |-> progress_accuracy_window(simargs),
            num_examples |-> num_examples(simargs, simargs.len),
            n_data |-> n_data(simargs, simargs.len),
            presented |-> 0])
    /\ UNCHANGED <<output, data, randomFiles, simargs, disk, proc, net, aux>>

\* lines 301-304 and 780: the engine runs for num_examples example times
PresentExample ==
    /\ simlocals # None
    /\ TheValue(simlocals).presented < TheValue(simlocals).num_examples
    /\ simlocals' = Some([TheValue(simlocals) EXCEPT !.presented = @ + 1])
    /\ UNCHANGED <<output, data, randomFiles, simargs, disk, proc, net, aux>>

NextDefaults == ResolveDefaults \/ PresentExample

SpecDefaults == InitDefaults /\ [][NextDefaults]_vars

\* ---------------------------------------------------------------- claims
SimPcs == {"sim_build", "run", "final_progress", "final_record", "save_theta",
           "save_conns"}
metadata == stores[StoreKey(args)]
StoreOpened == AbsParts(storefilename(args)) \in written
Constructed == pc = "run" /\ tick = 0 /\ execLog = <<>>

\* C1: at a time point of the engine run the operations that are due run in
\* the order record, normalize, progress: once normalization or a progress
\* evaluation has run at the point, the recording ran first, and the row of
\* this point (index nseen, nseen = initial nseen + point) is in the store.
C1_RecordThenNormalizeThenProgress ==
    pc = "run" =>
        /\ \A i, j \in 1..Len(execLog) :
              i < j => execLog[j] # "record" /\ execLog[i] # "progress"
        /\ (\E k \in 1..Len(execLog) : execLog[k] \in {"normalize", "progress"}) =>
              /\ execLog[1] = "record"
              /\ Len(hist.rows) = tick + 1
              /\ hist.rows[tick + 1] = metadata.nseen
              /\ metadata.nseen = hist.nseen0 + tick
              /\ \A p \in SeqToSet(RecordedPops(args)) :
                    LET tab == metadata.csc[p]
                    IN  tab # <<>> /\ tab[Len(tab)] = [tbin |-> metadata.nseen,
                                                       count |-> counts[p]]
C1_AllThreeRan ==
    pc = "run" /\ tick > 0 /\ execLog = <<"record", "normalize", "progress">>

\* C2: in the training store the cumulative counts of every neuron of every
\* recorded population do not decrease from a row to any later row.
C2_CumulativeCountsMonotone ==
    \A p \in AllPops :
        LET tab == stores["train"].csc[p]
        IN  \A i, j \in 1..Len(tab) :
                i < j => \A n \in 1..Len(tab[i].count) :
                            tab[i].count[n] <= tab[j].count[n]

\* C3: a resumed training run is constructed with the saved thresholds and,
\* for every connection that has a saved matrix, with that matrix as its
\* weights, whatever use_premade_weights is.
C3_ResumeConstructsFromSaved ==
    (Constructed /\ ~args.test_mode /\ args.resume) =>
        /\ \A p \in SeqToSet(population_names(args)) : theta[p] = wfiles.theta[p]
        /\ \A c \in SeqToSet(save_conns(args)) :
              wfiles.conn[c] # <<>> => conns[c] = Flatten(wfiles.conn[c])

\* C4: a resumed training run that follows a training run killed after a
\* completed progress pass does not abort while loading, and is constructed
\* with the thresholds and weights of that last progress pass.
C4_ResumeAfterKill ==
    (~args.test_mode /\ args.resume /\ hist.prevKilled /\ hist.prevCheckpoint # None) =>
        /\ ~(pc = "exited" /\ failure \in {"FileNotFoundError", "ValueError"})
        /\ Constructed =>
              /\ \A p \in SeqToSet(population_names(args)) :
                    theta[p] = TheValue(hist.prevCheckpoint).theta[p]
              /\ \A c \in SeqToSet(save_conns(args)) :
                    conns[c] = TheValue(hist.prevCheckpoint).conns[c]

\* C5: in a resumed run nseen and nprogress start at the values of the
\* training run's store and then only grow, by one per recording after time
\* 0 and by one per progress pass; a run without resume sets both to 0
\* before it records anything.
C5_Step ==
    /\ (pc = "main_store" /\ pc' = "sim_setup" /\ args.resume) =>
          /\ metadata'.nseen = stores["train"].nseen
          /\ metadata'.nprogress = stores["train"].nprogress
    /\ pc = "sim_setup" =>
          IF args.resume
          THEN metadata'.nseen = metadata.nseen /\ metadata'.nprogress = metadata.nprogress
          ELSE /\ metadata'.nseen = 0 /\ metadata'.nprogress = 0
               /\ hist'.rows = <<>> /\ hist'.passes = 0
    /\ (pc \in SimPcs /\ args.resume) =>
          /\ metadata'.nseen \in {metadata.nseen, metadata.nseen + 1}
          /\ metadata'.nprogress \in {metadata.nprogress, metadata.nprogress + 1}
          /\ hist'.rows # hist.rows =>
                metadata'.nseen = metadata.nseen + (IF pc = "run" /\ tick = 0 THEN 0 ELSE 1)
          /\ hist'.rows = hist.rows => metadata'.nseen = metadata.nseen
          /\ hist'.passes # hist.passes => metadata'.nprogress = metadata.nprogress + 1
C5_CountersNeverReset == [][C5_Step]_vars
C5_ResumedRunCounted ==
    /\ pc = "run" /\ args.resume /\ hist.nseen0 > 0
    /\ metadata.nseen > hist.nseen0 /\ metadata.nprogress > hist.nprogress0

\* C6: when a run of N examples has completed, in train and in test mode,
\* for every k in 1..N exactly one row written by the run has the index
\* initial nseen + k, and nseen is initial nseen + N.
C6_OneRowPerExample ==
    (pc = "exited" /\ exitStatus = 0) =>
        /\ \A k \in 1..args.num_examples :
              Cardinality({ i \in 1..Len(hist.rows) : hist.rows[i] = hist.nseen0 + k }) = 1
        /\ metadata.nseen = hist.nseen0 + args.num_examples


\* the weights of one target neuron of a connection, before and after a step
NormalizeStep == pc = "run" /\ execLog' = Append(execLog, "normalize")
ColumnOf(w, c, j) ==
    LET nr == n_neurons(args, data)[PreOf(c)]
        nc == n_neurons(args, data)[PostOf(c)]
    IN  [i \in 1..nr |-> w[(i - 1) * nc + j]]
TargetsOf(c) == 1..n_neurons(args, data)[PostOf(c)]

\* C7 (as stated): when normalize_weights runs, every column of an STDP
\* connection with a nonzero sum has the connection's total input weight as
\* its sum afterwards, every column with the sum zero keeps its values, and
\* the other connections keep their weights.
C7_Original_Step ==
    NormalizeStep =>
        \A c \in BuiltConns(args) :
            IF c \in stdp_conn_names(args)
            THEN \A j \in TargetsOf(c) :
                    IF RSumSeq(ColumnOf(conns[c], c, j)) # RInt(0)
                    THEN RSumSeq(ColumnOf(conns'[c], c, j)) = total_weight(args, data, c)
                    ELSE ColumnOf(conns'[c], c, j) = ColumnOf(conns[c], c, j)
            ELSE conns'[c] = conns[c]
C7_Amended_Step ==
    NormalizeStep =>
        \A c \in BuiltConns(args) :
            IF c \in stdp_conn_names(args)
            THEN \A j \in TargetsOf(c) :
                    IF RPos(RSumSeq(ColumnOf(conns[c], c, j)))
                    THEN RSumSeq(ColumnOf(conns'[c], c, j)) = total_weight(args, data, c)
                    ELSE ColumnOf(conns'[c], c, j) = ColumnOf(conns[c], c, j)
            ELSE conns'[c] = conns[c]
C8_Step ==
    (pc = "idle" /\ pc' # "idle" /\ args'.runname # None) =>
        LET existed == AbsParts(outputpath(args')) \in dirs
            flagged == args'.clobber \/ args'.resume \/ args'.test_mode
        IN  /\ (existed /\ ~flagged) =>
                  /\ pc' = "exited" /\ exitStatus' = 8
                  /\ UNCHANGED disk /\ written' = {}
            /\ (existed /\ flagged) => pc' = "main_log" /\ UNCHANGED <<files, logs, stores, wfiles>>
C8_OverwriteSafety == [][C8_Step]_vars
C8_RefusedExistingRun ==
    /\ pc = "exited" /\ exitStatus = 8
    /\ AbsParts(storefilename(args)) \in files

\* C9: every file the running process has written lies under the directory
\* <output>/<runname> that main created.
C9_WrittenUnderOutputDir ==
    (pc \notin {"idle"} /\ args.runname # None) =>
        \A f \in written : IsPrefix(AbsParts(outputpath(args)), f)

\* C10: in test mode the assignments table of the test store stays what the
\* clone took from the training store, and the assignments a progress pass
\* used for its predictions are that table.
C10_TestModeReadsAssignments ==
    (args.test_mode /\ StoreOpened) =>
        /\ metadata.assignments = stores["train"].assignments
        /\ metadata.assignments = hist.cloned
        /\ \A p \in AllPops :
              hist.used[p] # None => hist.used[p] = Some(hist.cloned[p])
C10_TestRunPredicted ==
    /\ args.test_mode /\ StoreOpened /\ hist.passes > 0
    /\ hist.used["A"] # None /\ hist.cloned["A"] # <<>>

\* a step that completes one progress pass, periodic or final
ProgressPassStep == hist'.passes = hist.passes + 1
ConnectionRowsAdded ==
    \A c \in AllConns :
        metadata'.connections[c] =
            IF c \in SeqToSet(save_conns(args))
            THEN Append(metadata.connections[c], metadata.nseen)
            ELSE metadata.connections[c]
WeightPlots == Paths({ plot_filename(args, "weights-", c) : c \in AllConns })

\* C11 (as stated): no progress pass of a test run appends a row to a
\* connections table or writes a weight plot; every progress pass of a
\* training run appends one row per saved connection.
C11_Original_Step ==
    ProgressPassStep =>
        IF args.test_mode
        THEN /\ metadata'.connections = metadata.connections
             /\ written' \cap WeightPlots = written \cap WeightPlots
        ELSE ConnectionRowsAdded
C11_SnapshotsOnlyInTrainMode == [][C11_Original_Step]_vars

\* C11 (amended): a progress pass appends one row per saved connection, and
\* plots the weights, in train mode and in test mode when nseen is 0; a
\* progress pass of a test run with nseen > 0 appends no row to a
\* connections table and writes no weight plot.
C11_Amended_Step ==
    ProgressPassStep =>
        IF ~args.test_mode \/ metadata.nseen = 0
        THEN /\ ConnectionRowsAdded
             /\ Paths({ plot_filename(args, "weights-", c) :
                          c \in SeqToSet(save_conns(args)) \ {"YeOe"} }) \subseteq written'
        ELSE /\ metadata'.connections = metadata.connections
             /\ written' \cap WeightPlots = written \cap WeightPlots
C11_SnapshotsInTrainModeOrAtZero == [][C11_Amended_Step]_vars
C11_TestRunSnapshotAtZero ==
    /\ args.test_mode /\ hist.passes = 2 /\ metadata.nseen = 1
    /\ metadata.connections["XeAe"] = Append(stores["train"].connections["XeAe"], 0)

\* the spikes of a population in the evaluation window of a progress pass
\* that is about to run
ProgressStarts == (pc = "run" /\ RunsNext("progress")) \/ pc = "final_progress"
PresentSpikes(name) ==
    LET accw == accuracy_window(metadata.nseen, progress_accuracy_window(args))
    IN  SumSeq(spike_counts_from_cumulative(metadata.csc[name],
                                            n_neurons(args, data)[Exc(name)],
                                            metadata.nseen - accw, metadata.nseen))

\* C12: a progress pass that finds no spike of a main/output population in
\* the evaluation window completes, appends no row to the population's
\* assignments table and none to its accuracy table, and appends its theta.
C12_Step ==
    ProgressStarts =>
        \A name \in SeqToSet(population_names(args)) :
            PresentSpikes(name) = 0 =>
                /\ ProgressPassStep
                /\ metadata'.assignments[name] = metadata.assignments[name]
                /\ metadata'.accuracy[name] = metadata.accuracy[name]
                /\ metadata'.theta[name] = Append(metadata.theta[name], metadata.nseen)
C12_ZeroSpikesSkipBoth == [][C12_Step]_vars

\* a population whose saved theta has another length than the population
ThetaLengthMismatch(name) ==
    /\ ~random_weights(args)
    /\ wfiles.theta[name] # <<>>
    /\ Len(wfiles.theta[name]) # n_neurons(args, data)[Exc(name)]

\* C13: when theta is loaded (test mode, or train mode with resume) and its
\* length differs from the size of the population, the construction ends
\* with a ValueError before the engine runs: no periodic operation runs, no
\* row is appended to the store and no file is written; when the lengths
\* match, the population's theta is the loaded vector.
C13_Step ==
    pc = "sim_build" =>
        /\ (\E name \in SeqToSet(population_names(args)) : ThetaLengthMismatch(name)) =>
               /\ pc' = "exited" /\ failure' = "ValueError" /\ exitStatus' # 0
               /\ execLog' = <<>> /\ hist'.passes = 0 /\ hist'.rows = <<>>
               /\ UNCHANGED <<disk, written, net>>
        /\ (pc' = "run" /\ (args.test_mode \/ args.resume)) =>
               \A name \in SeqToSet(population_names(args)) :
                   (~(args.test_mode /\ args.supervised /\ name = "O")) =>
                       /\ theta'[name] = wfiles.theta[name]
                       /\ Len(theta'[name]) = n_neurons(args, data)[Exc(name)]
C13_OnlyExitFollows == (pc = "exited" /\ failure = "ValueError") => (pc' = "idle" /\ UNCHANGED disk)
C13_ThetaSizeMismatchAborts == [][C13_Step /\ C13_OnlyExitFollows]_vars
C13_MismatchRefused ==
    /\ pc = "exited" /\ failure = "ValueError"
    /\ Len(wfiles.theta["A"]) = 1 /\ args.size = MaxSize /\ args.test_mode

\* the file load_connections looks for, and the weights the claim expects
WeightFile(c) == IF random_weights(args) THEN randomFiles[c] ELSE wfiles.conn[c]
ExpectedWeights(c) ==
    IF use_premade_weights(args) /\ WeightFile(c) # <<>>
    THEN Flatten(WeightFile(c))
    ELSE Flatten(get_initial_weights(n_neurons(args, data), c))

\* C14: a missing weight file never ends the construction; a built connection
\* gets the loaded matrix when premade weights are requested and the file is
\* found and the initial matrix of its name otherwise; the weights of every
\* built connection are set by the construction, before the engine runs, and
\* the construction sets no others.
C14_Step ==
    pc = "sim_build" =>
        /\ pc' # "run" =>
               /\ failure' \in {"FileNotFoundError", "ValueError"}
               /\ ~random_weights(args)
               /\ \E name \in SeqToSet(population_names(args)) :
                      \/ wfiles.theta[name] = <<>>
                      \/ Len(wfiles.theta[name]) # n_neurons(args, data)[Exc(name)]
        /\ pc' = "run" =>
               /\ conns = NoFiles
               /\ \A c \in AllConns :
                      conns'[c] = IF c \in BuiltConns(args) THEN ExpectedWeights(c) ELSE <<>>
               /\ \A c \in BuiltConns(args) : conns'[c] # <<>>
C14_MissingWeightFileFallsBack == [][C14_Step]_vars
C14_LoadedAndFallback ==
    /\ Constructed /\ args.use_premade_weights /\ ~args.test_mode /\ ~args.resume
    /\ randomFiles["XeAe"] # <<>> /\ conns["XeAe"] = Flatten(randomFiles["XeAe"])
    /\ randomFiles["AeAi"] = <<>>
    /\ conns["AeAi"] = Flatten(get_initial_weights(n_neurons(args, data), "AeAi"))
    /\ conns["XeAe"] # Flatten(get_initial_weights(n_neurons(args, data), "XeAe"))

\* C15: main() given no run name exits with code 2 when resume is requested,
\* before it creates a directory, a log file or a store; given no run name
\* and no resume it synthesizes a name from the time and goes on to create
\* the output directory of that name.
C15_Step ==
    (pc = "idle" /\ runs' = runs + 1) =>
        /\ args'.runname # RunName =>
               IF args'.resume
               THEN /\ args'.runname = None
                    /\ pc' = "exited" /\ exitStatus' = 2
                    /\ UNCHANGED disk /\ written' = {}
               ELSE /\ args'.runname = TimestampName
                    /\ pc' = "main_log"
                    /\ AbsParts(outputpath(args')) \in dirs'
                    /\ AbsParts(outputpath(args'))[Len(AbsParts(outputpath(args')))]
                           = TimestampName
        /\ exitStatus' = 2 /\ pc' = "exited" => args'.runname = None /\ args'.resume
C15_Exit2Untouched ==
    (pc = "exited" /\ exitStatus = 2) =>
        /\ dirs = {} /\ files = {}
        /\ \A k \in {"train", "test"} : logs[k] = <<>> /\ stores[k] = NoStore
C15_RunNameResolution == [](C15_Exit2Untouched) /\ [][C15_Step]_vars
C15_RefusedThenSynthesized ==
    /\ runs = 2 /\ exitStatus = 2 /\ pc = "main_log"
    /\ args.runname = TimestampName /\ ~args.resume

\* C16: the log file is opened for appending whenever resume is set and for
\* overwriting otherwise, whatever test mode and clobber are: the lines of
\* earlier processes stay exactly when resume is set.
C16_Step ==
    pc = "main_log" =>
        logs'[StoreKey(args)] = IF args.resume THEN Append(logs[StoreKey(args)], runs)
                                ELSE <<runs>>
C16_LogAppendedIffResume == [][C16_Step]_vars

\* the locals of the call, once resolved
Resolved == simlocals # None
locals == TheValue(simlocals)
NoOverrides ==
    /\ simargs.num_epochs = None /\ simargs.progress_interval = None
    /\ simargs.progress_assignments_window = None
    /\ simargs.progress_accuracy_window = None

\* C17: with nothing given, test mode resolves to ee_STDP_on false,
\* use_premade_weights true, one epoch, interval 1000, assignments window 0
\* and accuracy window 1000000, and train mode to ee_STDP_on true,
\* random_weights = not resume, three epochs, interval 1000 and both windows
\* 1000; each of the four numeric settings that is given is kept.
C17_ModeDefaults ==
    Resolved =>
        /\ locals.ee_STDP_on = ~simargs.test_mode
        /\ simargs.test_mode => locals.use_premade_weights
        /\ ~simargs.test_mode => locals.random_weights = ~simargs.resume
        /\ locals.num_epochs =
               IF simargs.num_epochs # None THEN simargs.num_epochs[1]
               ELSE IF simargs.test_mode THEN <<1, 1>> ELSE <<3, 1>>
        /\ locals.progress_interval =
               IF simargs.progress_interval # None THEN simargs.progress_interval[1]
               ELSE 1000
        /\ locals.progress_assignments_window =
               IF simargs.progress_assignments_window # None
               THEN simargs.progress_assignments_window[1]
               ELSE IF simargs.test_mode THEN 0 ELSE 1000
        /\ locals.progress_accuracy_window =
               IF simargs.progress_accuracy_window # None
               THEN simargs.progress_accuracy_window[1]
               ELSE IF simargs.test_mode THEN 1000000 ELSE 1000
C17_TestDefaultsResolved ==
    /\ Resolved /\ simargs.test_mode /\ NoOverrides
    /\ locals.progress_assignments_window = 0
    /\ locals.progress_accuracy_window = 1000000
    /\ locals.num_epochs = <<1, 1>>

\* the product L*e of the dataset length and the epochs is ProductNum/ProductDen
ProductNum == simargs.len * locals.num_epochs[1]
ProductDen == locals.num_epochs[2]
FractionalEpochs == locals.num_epochs[1] < locals.num_epochs[2]
TruncatedToCeiling ==
    /\ locals.n_data * ProductDen >= ProductNum
    /\ (locals.n_data - 1) * ProductDen < ProductNum
PresentedWithinData ==
    /\ locals.presented <= locals.num_examples
    /\ locals.num_examples <= locals.n_data

\* C18 as stated: for 0 < e < 1 the dataset is cut to its first ceil(L*e)
\* examples and num_examples equals L*e, so the examples presented never
\* exceed the truncated length; for e >= 1 the dataset keeps its length and
\* num_examples equals L*e.
C18_NumExamplesIsProduct ==
    Resolved =>
        /\ locals.num_examples * ProductDen = ProductNum
        /\ IF FractionalEpochs THEN TruncatedToCeiling /\ PresentedWithinData
           ELSE locals.n_data = simargs.len

\* C18, amended: num_examples is the integer part of L*e (the product
\* rounded down), for every e > 0; the rest is as stated.
C18_NumExamplesIsIntegerPart ==
    Resolved =>
        /\ locals.num_examples * ProductDen <= ProductNum
        /\ (locals.num_examples + 1) * ProductDen > ProductNum
        /\ IF FractionalEpochs THEN TruncatedToCeiling /\ PresentedWithinData
           ELSE locals.n_data = simargs.len
C18_FractionalProductPresented ==
    /\ Resolved /\ FractionalEpochs
    /\ ProductNum % ProductDen # 0
    /\ locals.num_examples >= 1
    /\ locals.presented = locals.num_examples
    /\ locals.n_data = locals.num_examples + 1

\* the progress passes the engine run makes for n examples
PeriodicPasses(n) ==
    IF progress_interval(args) > 0
    THEN Cardinality({ k \in 0..(n - 1) : k % progress_interval(args) = 0 })
    ELSE 0
WeightFiles ==
    Paths({ theta_filename(args, p) : p \in SeqToSet(population_names(args)) }
          \cup { conn_filename(args, c) : c \in SeqToSet(save_conns(args)) })
CscRows(st) == Len(st.csc["A"])

\* C19: after the engine run exactly one more progress pass runs, whatever
\* progress_interval is; a training run then records the spike counts once,
\* saves theta and saves the connections, in this order, and a test run does
\* none of the three.
C19_Step ==
    /\ (pc = "run" /\ pc' \notin {"run", "exited"}) =>
           /\ pc' = "final_progress" /\ tick' = args.num_examples
           /\ hist'.passes = PeriodicPasses(args.num_examples)
    /\ pc = "final_progress" =>
           /\ hist'.passes = hist.passes + 1
           /\ CscRows(metadata') = CscRows(metadata)
           /\ wfiles' = wfiles
           /\ IF args.test_mode THEN pc' = "exited" /\ exitStatus' = 0
              ELSE pc' = "final_record"
    /\ pc = "final_record" =>
           /\ ~args.test_mode /\ pc' = "save_theta"
           /\ CscRows(metadata') = CscRows(metadata) + 1
           /\ hist'.passes = hist.passes /\ wfiles' = wfiles
    /\ pc = "save_theta" =>
           /\ ~args.test_mode /\ pc' = "save_conns"
           /\ \A p \in SeqToSet(population_names(args)) : wfiles'.theta[p] = theta[p]
           /\ wfiles'.conn = wfiles.conn
           /\ hist'.passes = hist.passes /\ stores' = stores
    /\ pc = "save_conns" =>
           /\ ~args.test_mode /\ pc' = "exited" /\ exitStatus' = 0
           /\ \A c \in SeqToSet(save_conns(args)) : Flatten(wfiles'.conn[c]) = conns[c]
           /\ wfiles'.theta = wfiles.theta
           /\ hist'.passes = hist.passes /\ stores' = stores
C19_Finished ==
    (pc = "exited" /\ exitStatus = 0) =>
        /\ hist.passes = PeriodicPasses(args.num_examples) + 1
        /\ IF args.test_mode
           THEN /\ written \cap WeightFiles = {}
                /\ Len(hist.rows) = args.num_examples
           ELSE /\ WeightFiles \subseteq written
                /\ Len(hist.rows) = args.num_examples + 1
C19_FinalSaveStep == [](C19_Finished) /\ [][C19_Step]_vars
C19_TrainRunSavedWithoutPeriodicPass ==
    /\ pc = "exited" /\ exitStatus = 0 /\ ~args.test_mode
    /\ progress_interval(args) = 0 /\ hist.passes = 1
    /\ Len(hist.rows) = args.num_examples + 1
    /\ WeightFiles \subseteq written

\* the connections the claim names as plastic, for a network with or without
\* the supervised layer and the feedback connection
PlasticByClaim(test, sup, fb, c) ==
    ~test /\ (c = "XeAe" \/ (c = "AeOe" /\ sup) \/ (c = "OeAe" /\ fb))
Running == pc \in SimPcs \ {"sim_build"}

\* C20: STDP is enabled on a connection exactly when the run is a training
\* run and the connection is XeAe, or AeOe with the supervised layer, or OeAe
\* with feedback; a test run registers no normalization and changes no
\* weight, so its weights at the end are those of the construction, and it
\* writes no weight or theta file.
C20_StdpSwitch ==
    \A sup \in BOOLEAN, fb \in BOOLEAN, c \in AllConns :
        stdp_on([args EXCEPT !.supervised = sup, !.feedback = fb], c)
            <=> PlasticByClaim(args.test_mode, sup, fb, c)
C20_TestRunFrozen ==
    (args.test_mode /\ (Running \/ (pc = "exited" /\ conns # NoFiles))) =>
        /\ "normalize" \notin due
        /\ \A i \in 1..Len(execLog) : execLog[i] # "normalize"
        /\ \A c \in BuiltConns(args) : conns[c] = ExpectedWeights(c)
        /\ written \cap WeightFiles = {}
C20_Step ==
    Running =>
        /\ \A c \in AllConns :
               conns'[c] # conns[c] /\ pc' # "idle" =>
                   PlasticByClaim(args.test_mode, args.supervised, args.feedback, c)
        /\ args.test_mode => wfiles' = wfiles
C20_StdpOnlyInTraining == [](C20_StdpSwitch /\ C20_TestRunFrozen) /\ [][C20_Step]_vars
C20_TestRunSpikedUnchanged ==
    /\ args.test_mode /\ pc = "exited" /\ exitStatus = 0
    /\ SumSeq(counts["A"]) > 0 /\ SumSeq(counts["X"]) > 0
    /\ conns["XeAe"] = Flatten(wfiles.conn["XeAe"])
    /\ conns["XeAe"] # Flatten(get_initial_weights(n_neurons(args, data), "XeAe"))

====
